---- MODULE Spec2Model ----
(***************************************************************************)
(* CatStore (the observable state container), its subscription registry,   *)
(* its localStorage persistence, and CatQuery.bind / CatQuery.html (the    *)
(* render binder and its patch rule), from src/CatQuery.ts.                *)
(*                                                                         *)
(* One CatStore instance is followed at a time (`new CatStore` replaces    *)
(* it), together with localStorage, which outlives every instance, and one *)
(* CatQuery object selecting one element (the bind target).                *)
(* Every action is one synchronous call of the source; `last` holds the    *)
(* observable trace of that call (listener invocations, storage I/O,       *)
(* replaceChildren calls, the return or the exception), in program order.  *)
(***************************************************************************)
EXTENDS Integers, Sequences, FiniteSets, TLC

VARIABLES
  state,        \* CatStore.state: the record behind the Proxy
  storageKey,   \* CatStore.storageKey
  listeners,    \* CatStore.listeners: a JS Set, kept in insertion order
  localStorage, \* window.localStorage: key -> item
  handles,      \* the closures returned by subscribe() that callers hold
  renderFns,    \* the renderFn captured by each bind() closure
  tornDown,     \* bind() closures whose bind() result was used as a teardown
  target,       \* child nodes of the element the CatQuery object selects
  last          \* the trace of the last call

vars == <<state, storageKey, listeners, localStorage, handles, renderFns,
          tornDown, target, last>>

-----------------------------------------------------------------------------
(* Values and records *)

\* The fields of the state record T.
Fields == {"a", "b"}
\* The order in which JSON.stringify walks the fields.
FieldSeq == <<"a", "b">>
\* A property that the record does not have.
Absent == "absent"
\* A function value, such as a callback kept in the state.
Function == "function"
\* What a caller may assign to a field: the numbers 0 and 1, and a function.
Values == {"0", "1", Function}
\* The initialState arguments passed to the constructor.
InitialStates == {[a |-> "0", b |-> "0"], [a |-> "1", b |-> Absent]}

\* null, as a storage key argument.
Null == "null"
\* The storageKey arguments: null (the default), the empty string, "k".
KeyArgs == {Null, "", "k"}
\* The keys of localStorage.
StorageKeys == {"", "k"}

\* How many bind() calls one store sees.
MaxBinds == 1
\* The closure created by the i-th bind() call on the current store.
BindListener(i) == CASE i = 1 -> "bind1" [] i = 2 -> "bind2" [] OTHER -> "bind3"
BindListeners == {BindListener(i) : i \in 1..MaxBinds}
\* Listener functions of the callers: l1 and l2 return, lt throws.
PlainListeners == {"l1", "l2", "lt"}
Listeners == PlainListeners \cup BindListeners

\* The render functions passed to bind().
\*   count:    state => `<b>${state.a}</b>`
\*   template: state => `\n  <b>${state.a}</b>`   (a template literal that
\*             starts on a new line, as in the README)
\*   list:     state => state.a ? `<b>${state.a}</b>` : ""
RenderFnNames == {"count", "template", "list"}
NoRender == "none"

-----------------------------------------------------------------------------
(* JSON.stringify / JSON.parse, used at lines 20 and 27 *)

\* A JSON text is modelled as its tokens: "{", one member token per
\* property written, "}". The empty string is the empty token sequence.
MemberToken(f, v) ==
  CASE f = "a" /\ v = "0" -> "\"a\":0"
    [] f = "a" /\ v = "1" -> "\"a\":1"
    [] f = "b" /\ v = "0" -> "\"b\":0"
    [] f = "b" /\ v = "1" -> "\"b\":1"

RECURSIVE Members(_, _)
Members(rec, i) ==
  IF i > Len(FieldSeq) THEN <<>>
  ELSE LET f == FieldSeq[i] IN
       (IF rec[f] \in {Absent, Function} THEN <<>> ELSE <<MemberToken(f, rec[f])>>)
       \o Members(rec, i + 1)

\* JSON.stringify(target): a property whose value is a function is left out
\* of the text, without an error.
JSONstringify(rec) == <<"{">> \o Members(rec, 1) \o <<"}">>

\* JSON.parse(savedState): a record with exactly the members of the text.
JSONparse(text) ==
  [f \in Fields |->
     LET vs == {v \in {"0", "1"} :
                  \E i \in 1..Len(text) : text[i] = MemberToken(f, v)} IN
     IF vs = {} THEN Absent ELSE CHOOSE v \in vs : TRUE]

\* What localStorage holds under a key, and what getItem returns: null, or
\* a text.
NoItem == [null |-> TRUE, text |-> <<>>]
Item(text) == [null |-> FALSE, text |-> text]

\* Truthiness of a string-or-null key: null and "" are falsy (lines 19, 26).
Truthy(s) == s # Null /\ s # ""
\* Truthiness of what getItem returned: null and "" are falsy (line 20).
TruthyItem(item) == ~item.null /\ item.text # <<>>

-----------------------------------------------------------------------------
(* Set<CatListener>: add and delete keep insertion order *)

InSet(ls, l) == \E i \in 1..Len(ls) : ls[i] = l

SetAddUnlessThrows(ls, l) ==
  IF InSet(ls, l) \/ l = "lt" THEN ls ELSE Append(ls, l)

SetAddAgain(ls, l) == Append(ls, l)

SetAddInFront(ls, l) == IF InSet(ls, l) THEN ls ELSE <<l>> \o ls

SetAdd(ls, l) == IF InSet(ls, l) THEN ls ELSE Append(ls, l)

SetDelete(ls, l) == SelectSeq(ls, LAMBDA x : x # l)

\* Whether the listener function throws when it is called.
Throws(l) == l = "lt"

-----------------------------------------------------------------------------
(* Markup, DOMParser and innerHTML *)

\* Markup is a sequence of tokens: "sp" is whitespace text, the others are
\* one <b> element each.
Elem(v) == CASE v = "0" -> "<b>0</b>"
             [] v = "1" -> "<b>1</b>"
             [] v = Function -> "<b>() => 0</b>"
             [] OTHER   -> "<b>undefined</b>"

\* `${state.a}`: an absent property reads as undefined.
RenderFn(rf, st) ==
  CASE rf = "count"    -> << Elem(st.a) >>
    [] rf = "template" -> << "sp", Elem(st.a) >>
    [] rf = "list"     -> IF st.a = "1" THEN << Elem(st.a) >> ELSE <<>>

\* parser.parseFromString(htmlText, 'text/html').body.childNodes: the HTML
\* parser drops the whitespace that precedes the first body content.
RECURSIVE DOMParse(_)
DOMParse(markup) ==
  IF markup # <<>> /\ Head(markup) = "sp" THEN DOMParse(Tail(markup)) ELSE markup

\* element.innerHTML: the serialization of the child nodes.
innerHTML(nodes) == nodes

\* CatQuery.html(htmlText), lines 230-249, on the selected element.
\* Result: the new child nodes and whether replaceChildren was called.
html(nodes, htmlText) ==
  IF htmlText # <<>>                      \* if (htmlText): "" is falsy
  THEN IF innerHTML(nodes) # htmlText
       THEN [nodes |-> DOMParse(htmlText), replaced |-> TRUE]
       ELSE [nodes |-> nodes, replaced |-> FALSE]
  ELSE [nodes |-> nodes, replaced |-> FALSE]   \* the getter branch

-----------------------------------------------------------------------------
(* Trace events of one call *)

EvCall(l, st, why) == [t |-> "call", l |-> l, s |-> st, why |-> why]
EvGet(k)           == [t |-> "getItem", k |-> k]
EvSet(k, text)     == [t |-> "setItem", k |-> k, text |-> text]
EvReplace(nodes)   == [t |-> "replaceChildren", nodes |-> nodes]
EvThrow(e)         == [t |-> "throw", e |-> e]
EvReturn(v)        == [t |-> "return", v |-> v]

\* One listener invocation l(st): the events it causes and the new target.
Invoke(l, st, why, tgt, rfs) ==
  IF l \in BindListeners
  THEN LET r == html(tgt, RenderFn(rfs[l], st)) IN
       [ev  |-> <<EvCall(l, st, why)>>
                \o (IF r.replaced THEN <<EvReplace(r.nodes)>> ELSE <<>>),
        tgt |-> r.nodes, threw |-> FALSE]
  ELSE [ev  |-> <<EvCall(l, st, why)>>
                \o (IF Throws(l) THEN <<EvThrow("listener")>> ELSE <<>>),
        tgt |-> tgt, threw |-> Throws(l)]

\* CatStore.notify, lines 42-44: listeners.forEach(l => l(this.state)).
\* An exception thrown by a listener ends the forEach.
RECURSIVE notifyFrom(_, _, _, _, _)
notifyFrom(ls, i, st, tgt, rfs) ==
  IF i > Len(ls) THEN [ev |-> <<>>, tgt |-> tgt, threw |-> FALSE]
  ELSE LET one == Invoke(ls[i], st, "notify", tgt, rfs) IN
       IF one.threw THEN one
       ELSE LET rest == notifyFrom(ls, i + 1, st, one.tgt, rfs) IN
            [ev |-> one.ev \o rest.ev, tgt |-> rest.tgt, threw |-> rest.threw]

RECURSIVE notifyIsolatingFrom(_, _, _, _, _)
notifyIsolatingFrom(ls, i, st, tgt, rfs) ==
  IF i > Len(ls) THEN [ev |-> <<>>, tgt |-> tgt, threw |-> FALSE]
  ELSE LET one  == Invoke(ls[i], st, "notify", tgt, rfs)
           rest == notifyIsolatingFrom(ls, i + 1, st, one.tgt, rfs) IN
       [ev |-> one.ev \o rest.ev, tgt |-> rest.tgt, threw |-> one.threw \/ rest.threw]

notifyIsolating(ls, st, tgt, rfs) == notifyIsolatingFrom(ls, 1, st, tgt, rfs)

notify(ls, st, tgt, rfs) == notifyFrom(ls, 1, st, tgt, rfs)

\* A subscribe that registers the listener and does not call it.
replayOmitted(l, st, tgt, rfs) == [ev |-> <<>>, tgt |-> tgt, threw |-> FALSE]
\* subscribe, line 38: listener(this.state), the replay.
replay(l, st, tgt, rfs) == Invoke(l, st, "replay", tgt, rfs)

\* A set trap that saves without looking at the storage key.
savesAlways(key) == TRUE

savesNever(key) == FALSE
\* The set trap, line 26: if (this.storageKey).
saves(key) == Truthy(key)

-----------------------------------------------------------------------------
(* The state after `new CatStore(initialState, storageKey)` *)

\* Whether JSON.parse(text) returns an object: the text is "{", members, "}".
\* Any other text either makes JSON.parse throw a SyntaxError (line 20) or
\* parses to a non-object, on which new Proxy throws a TypeError (line 22).
IsObjectText(text) ==
  /\ Len(text) >= 2
  /\ text[1] = "{"
  /\ text[Len(text)] = "}"

\* Lines 19-20: the record the Proxy wraps.
baseState(initialState, key, storage) ==
  LET savedState == IF Truthy(key) THEN storage[key] ELSE NoItem IN
  IF TruthyItem(savedState) THEN JSONparse(savedState.text) ELSE initialState

\* Whether the constructor throws at line 20 or 22.
constructThrows(key, storage) ==
  /\ Truthy(key)
  /\ TruthyItem(storage[key])
  /\ ~IsObjectText(storage[key].text)

\* The trace of the last call: the operation, its arguments ("-" where it
\* has none), whether the handle used had been used before, and the events.
Trace(op, l, f, v, usedBefore, ev) ==
  [op |-> op, l |-> l, f |-> f, v |-> v, usedBefore |-> usedBefore, ev |-> ev]

ConstructTrace(key) ==
  Trace("construct", "-", "-", "-", FALSE,
        (IF Truthy(key) THEN <<EvGet(key)>> ELSE <<>>) \o <<EvReturn("CatStore")>>)

\* The trace of a constructor call that throws: no instance is created.
FailedConstructTrace(key) ==
  Trace("construct", "-", "-", "-", FALSE, <<EvGet(key), EvThrow("construct")>>)

Init ==
  /\ localStorage = [k \in StorageKeys |-> NoItem]
  /\ \E initialState \in InitialStates, key \in KeyArgs :
       /\ state = baseState(initialState, key, localStorage)
       /\ storageKey = key
       /\ last = ConstructTrace(key)
  /\ listeners = <<>>
  /\ handles = {}
  /\ renderFns = [l \in BindListeners |-> NoRender]
  /\ tornDown = {}
  /\ target = <<>>

\* new CatStore(initialState, key), lines 16-34; the variable that held the
\* previous instance now holds the new one, so the closures that referred to
\* the previous instance are out of the picture. When the constructor
\* throws, there is no new instance and the previous one stays.
Construct(initialState, key) ==
  IF constructThrows(key, localStorage)
  THEN /\ last' = FailedConstructTrace(key)
       /\ UNCHANGED <<state, storageKey, listeners, localStorage, handles,
                      renderFns, tornDown, target>>
  ELSE /\ state' = baseState(initialState, key, localStorage)
       /\ storageKey' = key
       /\ listeners' = <<>>
       /\ handles' = {}
       /\ renderFns' = [l \in BindListeners |-> NoRender]
       /\ tornDown' = {}
       /\ last' = ConstructTrace(key)
       /\ UNCHANGED <<localStorage, target>>

\* state[f] = v through the Proxy: the set trap, lines 23-32.
\* quotaExceeded: localStorage.setItem throws (the storage is full).
Write(f, v, quotaExceeded) ==
  LET written == [state EXCEPT ![f] = v]                       \* line 24
      saving  == saves(storageKey)                              \* line 26
      failed  == saving /\ quotaExceeded
      text    == JSONstringify(written)
      n       == IF failed
                 THEN [ev |-> <<EvThrow("save")>>, tgt |-> target, threw |-> TRUE]
                 ELSE notify(listeners, written, target, renderFns)  \* line 30
  IN
  /\ state' = written
  /\ localStorage' = IF saving /\ ~failed
                     THEN [localStorage EXCEPT ![storageKey] = Item(text)]  \* line 27
                     ELSE localStorage
  /\ target' = n.tgt
  /\ last' = Trace("write", "-", f, v, FALSE,
                   (IF saving /\ ~failed THEN <<EvSet(storageKey, text)>> ELSE <<>>)
                   \o n.ev
                   \o (IF n.threw THEN <<>> ELSE <<EvReturn("true")>>))
  /\ UNCHANGED <<storageKey, listeners, handles, renderFns, tornDown>>

\* The closure returned by subscribe(l), line 39.
Handle(l, used) == [l |-> l, used |-> used]

\* store.subscribe(l), lines 36-40, called by application code.
Subscribe(l) ==
  LET one == replay(l, state, target, renderFns) IN    \* line 38
  /\ listeners' = SetAdd(listeners, l)                            \* line 37
  /\ handles' = IF one.threw THEN handles
                ELSE handles \cup {Handle(l, FALSE)}              \* line 39
  /\ last' = Trace("subscribe", l, "-", "-", FALSE,
                   one.ev \o (IF one.threw THEN <<>> ELSE <<EvReturn("unsubscribe")>>))
  /\ UNCHANGED <<state, storageKey, localStorage, renderFns, tornDown, target>>

\* Calling a closure returned by subscribe: this.listeners.delete(listener).
Unsubscribe(h) ==
  /\ h \in handles
  /\ listeners' = SetDelete(listeners, h.l)
  /\ handles' = (handles \ {h}) \cup {Handle(h.l, TRUE)}
  /\ last' = Trace("unsubscribe", h.l, "-", "-", h.used,
                   <<EvReturn(IF InSet(listeners, h.l) THEN "true" ELSE "false")>>)
  /\ UNCHANGED <<state, storageKey, localStorage, renderFns, tornDown, target>>

\* Whether bind() closure b exists (bind() was called for it).
Bound(b) == renderFns[b] # NoRender

\* cq(selector).bind(store, renderFn), lines 457-463: subscribes a new
\* closure that renders into the selected element, drops the closure that
\* subscribe returns, and returns the CatQuery object.
Bind(b, rf) ==
  LET rfs == [renderFns EXCEPT ![b] = rf]
      one == replay(b, state, target, rfs) IN
  /\ ~Bound(b)
  /\ \E i \in 1..MaxBinds :
       b = BindListener(i) /\ \A j \in 1..(i - 1) : Bound(BindListener(j))
  /\ renderFns' = rfs
  /\ listeners' = SetAdd(listeners, b)
  /\ target' = one.tgt
  /\ last' = Trace("bind", b, "-", "-", FALSE, one.ev \o <<EvReturn("CatQuery")>>)
  /\ UNCHANGED <<state, storageKey, localStorage, handles, tornDown>>

\* The caller uses what bind() returned to tear binding b down. It is the
\* CatQuery object (line 462): it is not callable and has no method that
\* reaches listeners.delete, so the registry stays as it is.
UseBindResult(b) ==
  /\ Bound(b)
  /\ b \notin tornDown
  /\ tornDown' = tornDown \cup {b}
  /\ last' = Trace("teardown", b, "-", "-", FALSE, <<EvThrow("TypeError")>>)
  /\ UNCHANGED <<state, storageKey, listeners, localStorage, handles, renderFns, target>>

StoreNext ==
  \/ \E initialState \in InitialStates, key \in KeyArgs : Construct(initialState, key)
  \/ \E f \in Fields, v \in Values, q \in BOOLEAN : Write(f, v, q)
  \/ \E l \in PlainListeners : Subscribe(l)
  \/ \E h \in handles : Unsubscribe(h)

BindNext ==
  \/ \E b \in BindListeners, rf \in RenderFnNames : Bind(b, rf)
  \/ \E b \in BindListeners : UseBindResult(b)

\* The store, its registry and its persistence, with no element bound.
Next == StoreNext

Spec == Init /\ [][Next]_vars

\* A page that binds the store to the element: the binder calls, the
\* constructor, the writes, and one application listener beside the binder.
BoundPageListeners == {"l1"}

NextBind ==
  \/ BindNext
  \/ \E initialState \in InitialStates, key \in KeyArgs : Construct(initialState, key)
  \/ \E f \in Fields, v \in Values, q \in BOOLEAN : Write(f, v, q)
  \/ \E l \in BoundPageListeners : Subscribe(l)
  \/ \E h \in handles : Unsubscribe(h)

SpecBind == Init /\ [][NextBind]_vars

-----------------------------------------------------------------------------
(* Mutations and storage content that do not go through the set trap *)

\* delete store.state.f: the Proxy handler of lines 22-33 has a set trap and
\* no deleteProperty trap, so the property is removed from the target and
\* neither the save nor notify() runs.
DeleteField(f) ==
  /\ state[f] # Absent
  /\ state' = [state EXCEPT ![f] = Absent]
  /\ last' = Trace("delete", "-", f, Absent, FALSE, <<EvReturn("true")>>)
  /\ UNCHANGED <<storageKey, listeners, localStorage, handles, renderFns,
                 tornDown, target>>

\* Texts that other code of the page may have left in the storage slot: the
\* empty string, a truncated text, a JSON text that is no object, and the
\* snapshot of a record.
ForeignTexts ==
  {<<>>, <<"{">>, <<"null">>, JSONstringify([a |-> "1", b |-> "0"])}

\* localStorage.setItem(k, text) by other code of the page; line 19 reads
\* whatever the slot holds.
ForeignSetItem(k, text) ==
  /\ localStorage' = [localStorage EXCEPT ![k] = Item(text)]
  /\ last' = Trace("foreign", "-", "-", "-", FALSE, <<>>)
  /\ UNCHANGED <<state, storageKey, listeners, handles, renderFns, tornDown,
                 target>>

ForeignKeys == {"k"}

OutOfBandListeners == {"l1"}

NextOutOfBand ==
  \/ \E initialState \in InitialStates, key \in KeyArgs : Construct(initialState, key)
  \/ \E f \in Fields, v \in Values, q \in BOOLEAN : Write(f, v, q)
  \/ \E l \in OutOfBandListeners : Subscribe(l)
  \/ \E f \in Fields : DeleteField(f)
  \/ \E k \in ForeignKeys, text \in ForeignTexts : ForeignSetItem(k, text)

SpecOutOfBand == Init /\ [][NextOutOfBand]_vars

-----------------------------------------------------------------------------
(* Listeners that use the store from inside their callback *)

\* Listeners with a body: lw writes field b through the state it receives
\* unless b is "1" already, lu calls the closure that subscribe returned for
\* l1 if there is one, ls subscribes l2 when field a is "1". l1 and l2 have
\* no effect on the store.
CallbackListeners == {"l1", "lw", "lu", "ls"}

\* An entry of Set data that was deleted while a forEach is running: the
\* entry list keeps its length and the iteration skips the entry.
Hole == "empty"

\* this.listeners.delete(l) while a forEach may be running.
SetDeleteLive(ls, l) == [i \in 1..Len(ls) |-> IF ls[i] = l THEN Hole ELSE ls[i]]

\* The registry once no forEach is running.
Compact(ls) == SelectSeq(ls, LAMBDA x : x # Hole)

\* A listener call made inside notification pass p (0: outside any pass).
EvCallIn(l, st, why, p) == [t |-> "call", l |-> l, s |-> st, why |-> why, pass |-> p]

\* this.listeners.add(l) that created an entry, inside pass p.
EvAdd(l, p) == [t |-> "add", l |-> l, pass |-> p]

\* this.listeners.delete(l) that removed an entry, inside pass p.
EvDelete(l, p) == [t |-> "delete", l |-> l, pass |-> p]

\* The store and the storage while one call from outside is running: the
\* registry with its holes, the record, the storage, the closures handed out,
\* the events so far and the number of notification passes started.
Machine ==
  [ls |-> listeners, st |-> state, sto |-> localStorage, key |-> storageKey,
   hs |-> handles, ev |-> <<>>, n |-> 0]

RECURSIVE call(_, _, _, _)
RECURSIVE forEachFrom(_, _, _)

\* [...this.listeners].forEach: a pass over a copy of the registry.
RECURSIVE forEachCopyFrom(_, _, _, _)
forEachCopyFrom(m, copy, i, p) ==
  IF i > Len(copy) THEN m
  ELSE forEachCopyFrom(call(m, copy[i], "notify", p), copy, i + 1, p)

notifyCopy(m, p) == forEachCopyFrom(m, Compact(m.ls), 1, p)

\* notify(), lines 42-44, as pass p over the live registry.
notifyLive(m, p) == forEachFrom(m, 1, p)

\* The set trap, lines 23-32, entered with the store in condition m.
setTrap(m, f, v) ==
  LET written == [m.st EXCEPT ![f] = v]
      text    == JSONstringify(written)
      p       == m.n + 1
      saved   == IF saves(m.key)
                 THEN [m EXCEPT !.st = written,
                                !.sto = [m.sto EXCEPT ![m.key] = Item(text)],
                                !.ev = Append(m.ev, EvSet(m.key, text)),
                                !.n = p]
                 ELSE [m EXCEPT !.st = written, !.n = p]
  IN notifyLive(saved, p)

\* subscribe(l), lines 36-40, entered with the store in condition m inside
\* pass p; the closure it returns goes to the caller.
subscribe(m, l, p) ==
  LET added == IF InSet(m.ls, l) THEN m
               ELSE [m EXCEPT !.ls = Append(m.ls, l),
                              !.ev = Append(m.ev, EvAdd(l, p))]
  IN call(added, l, "replay", p)

\* The closure returned by subscribe for l, line 39, called inside pass p.
unsubscribe(m, l, p) ==
  [m EXCEPT !.ls = SetDeleteLive(m.ls, l),
            !.hs = (m.hs \ {Handle(l, FALSE)}) \cup {Handle(l, TRUE)},
            !.ev = IF InSet(m.ls, l) THEN Append(m.ev, EvDelete(l, p)) ELSE m.ev]

\* What listener l does when it is called inside pass p.
body(m, l, p) ==
  CASE l = "lw" -> IF m.st.b # "1" THEN setTrap(m, "b", "1") ELSE m
    [] l = "lu" -> IF \E h \in m.hs : h.l = "l1" THEN unsubscribe(m, "l1", p) ELSE m
    [] l = "ls" -> IF m.st.a = "1" THEN subscribe(m, "l2", p) ELSE m
    [] OTHER    -> m

\* listener(this.state) / l(this.state), lines 38 and 43: the listener gets
\* the Proxy itself, so it sees the record as it is when it is called.
call(m, l, why, p) ==
  body([m EXCEPT !.ev = Append(m.ev, EvCallIn(l, m.st, why, p))], l, p)

\* Set.prototype.forEach over the live entry list: deleted entries are
\* skipped, entries added while it runs are visited.
forEachFrom(m, i, p) ==
  IF i > Len(m.ls) THEN m
  ELSE IF m.ls[i] = Hole THEN forEachFrom(m, i + 1, p)
  ELSE forEachFrom(call(m, m.ls[i], "notify", p), i + 1, p)

\* store.state[f] = v from outside any listener.
WriteWithCallbacks(f, v) ==
  LET m == setTrap(Machine, f, v) IN
  /\ state' = m.st
  /\ localStorage' = m.sto
  /\ listeners' = Compact(m.ls)
  /\ handles' = m.hs
  /\ last' = Trace("write", "-", f, v, FALSE, Append(m.ev, EvReturn("true")))
  /\ UNCHANGED <<storageKey, renderFns, tornDown, target>>

\* store.subscribe(l) from outside any listener.
SubscribeWithCallbacks(l) ==
  LET m == subscribe(Machine, l, 0) IN
  /\ state' = m.st
  /\ localStorage' = m.sto
  /\ listeners' = Compact(m.ls)
  /\ handles' = m.hs \cup {Handle(l, FALSE)}
  /\ last' = Trace("subscribe", l, "-", "-", FALSE, Append(m.ev, EvReturn("unsubscribe")))
  /\ UNCHANGED <<storageKey, renderFns, tornDown, target>>

CallbackInitialStates == {[a |-> "0", b |-> "0"]}

CallbackKeyArgs == {Null, "k"}

CallbackValues == {"0", "1"}

NextCallbacks ==
  \/ \E initialState \in CallbackInitialStates, key \in CallbackKeyArgs :
       Construct(initialState, key)
  \/ \E f \in Fields, v \in CallbackValues : WriteWithCallbacks(f, v)
  \/ \E l \in CallbackListeners : SubscribeWithCallbacks(l)

SpecCallbacks == Init /\ [][NextCallbacks]_vars

-----------------------------------------------------------------------------
(* Reading the trace of the last call *)

\* The positions of tr at which listener l is invoked.
CallsOf(tr, l) == {i \in 1..Len(tr) : tr[i].t = "call" /\ tr[i].l = l}
\* The positions of tr at which localStorage is read or written.
StorageIO(tr) == {i \in 1..Len(tr) : tr[i].t \in {"getItem", "setItem"}}
\* The positions of tr at which replaceChildren is called.
Replacements(tr) == {i \in 1..Len(tr) : tr[i].t = "replaceChildren"}
\* Whether the call ended with the exception e.
Threw(tr, e) == \E i \in 1..Len(tr) : tr[i].t = "throw" /\ tr[i].e = e
\* Whether the call returned to its caller.
Returned(tr) == \E i \in 1..Len(tr) : tr[i].t = "return"

-----------------------------------------------------------------------------
(* Claims *)

\* C1: subscribe(l) leaves l registered and invokes l exactly once, first
\* thing and before the unsubscribe closure is returned, with the state that
\* was current when subscribe was called; nothing else is invoked, and no
\* write is needed for it.
C1_ReplayOnSubscribe ==
  [][last'.op = "subscribe" =>
       LET l == last'.l
           tr == last'.ev IN
       /\ InSet(listeners', l)
       /\ Cardinality(CallsOf(tr, l)) = 1
       /\ \A k \in Listeners \ {l} : CallsOf(tr, k) = {}
       /\ tr[1] = EvCall(l, state, "replay")
       /\ \A i \in 1..Len(tr) : tr[i].t = "return" => i > 1 /\ tr[i].v = "unsubscribe"
       /\ Returned(tr) => Handle(l, FALSE) \in handles'
       /\ state' = state
  ]_vars

\* A replay that delivers a state made by earlier writes, to a listener that
\* joins a registry others have joined and left.
C1_Witness ==
  /\ last.op = "subscribe" /\ last.l = "l2"
  /\ Returned(last.ev)
  /\ last.ev[1].s = [a |-> "1", b |-> Function]
  /\ InSet(listeners, "lt")
  /\ Handle("l1", TRUE) \in handles

\* C2: after a write of one field, every listener of the registry is invoked
\* with the whole current record, in which the written field has the new
\* value and every other field the value it had.
C2_FullStateNotify ==
  [][last'.op = "write" =>
       /\ state'[last'.f] = last'.v
       /\ \A g \in Fields \ {last'.f} : state'[g] = state[g]
       /\ \A i \in 1..Len(listeners) :
            \E j \in 1..Len(last'.ev) :
              last'.ev[j] = EvCall(listeners[i], state', "notify")
  ]_vars

\* C3: a store with slot "k" whose last write returned, followed by a new
\* store with the same slot: the new store starts from the state the first
\* one had after that write, whatever initial value it is given.
C3_PersistenceRoundTrip ==
  [][(/\ last.op = "write" /\ Returned(last.ev)
      /\ storageKey = "k"
      /\ last'.op = "construct" /\ storageKey' = "k")
     => state' = state
  ]_vars

\* C4: a store constructed with no storage key performs no storage I/O:
\* its constructor takes the initial value without reading, and no call on
\* it reads or changes localStorage.
C4_NoSlotNoPersistence ==
  [][storageKey' = Null =>
       /\ StorageIO(last'.ev) = {}
       /\ localStorage' = localStorage
       /\ last'.op = "construct" => state' \in InitialStates
  ]_vars

\* A write, with listeners, on a store with no key, while localStorage holds
\* the snapshot of an earlier store, which differs from the current state.
C4_Witness ==
  /\ last.op = "write" /\ storageKey = Null
  /\ listeners # <<>>
  /\ ~localStorage["k"].null
  /\ JSONparse(localStorage["k"].text) # state

\* C5: in a write, a listener whose unsubscribe closure has been called and
\* that is no longer registered is not invoked, and every listener that is
\* registered is invoked exactly once.
C5_UnsubscribeStopsDelivery ==
  last.op = "write" =>
    \A l \in PlainListeners :
      (Handle(l, TRUE) \in handles /\ ~InSet(listeners, l)) =>
        /\ CallsOf(last.ev, l) = {}
        /\ \A i \in 1..Len(listeners) :
             Cardinality(CallsOf(last.ev, listeners[i])) = 1

\* C6: calling an unsubscribe closure that has been called before leaves the
\* registry as it is, whatever subscribe and unsubscribe calls came between.
C6_HandleIsOneShot ==
  [][(last'.op = "unsubscribe" /\ last'.usedBefore) => listeners' = listeners]_vars

\* The bind() closure that the last call invoked last, if any.
LastBinderCalled(tr, b) ==
  /\ CallsOf(tr, b) # {}
  /\ \A c \in BindListeners \ {b} :
       \A i \in CallsOf(tr, b), j \in CallsOf(tr, c) : j < i

\* C7: whenever a bind() or a write invokes the binder, the binder is invoked
\* once and the element's content afterwards is the content parsed from
\* renderFn(current state).
C7_BoundTargetFollowsState ==
  \A b \in BindListeners :
    (last.op \in {"bind", "write"} /\ LastBinderCalled(last.ev, b)) =>
       /\ Cardinality(CallsOf(last.ev, b)) = 1
       /\ target = DOMParse(RenderFn(renderFns[b], state))

\* C8: with one binding, whose element shows the render of the current
\* state, a write that leaves renderFn's markup textually the same and
\* reaches the binder calls replaceChildren zero times.
C8_IdempotentRender ==
  [][\A b \in BindListeners :
       (/\ last'.op = "write"
        /\ CallsOf(last'.ev, b) # {}
        /\ \A c \in BindListeners \ {b} : ~Bound(c)
        /\ target = DOMParse(RenderFn(renderFns[b], state))
        /\ RenderFn(renderFns[b], state') = RenderFn(renderFns[b], state))
       => Replacements(last'.ev) = {}
  ]_vars

\* C9: once the value that bind() returned has been used to tear the binding
\* down, no write invokes the binder or replaces the element's content.
C9_BindReturnsTeardown ==
  (last.op = "write" /\ tornDown # {}) =>
    /\ \A b \in tornDown : CallsOf(last.ev, b) = {}
    /\ Replacements(last.ev) = {}

\* C10: a write whose save throws still leaves the new value in the state,
\* still notifies every registered listener with the new state, and the
\* exception reaches the caller of the write.
C10_SaveFailureDoesNotBlock ==
  (last.op = "write" /\ Threw(last.ev, "save")) =>
    /\ state[last.f] = last.v
    /\ ~Returned(last.ev)
    /\ \A i \in 1..Len(listeners) :
         \E j \in 1..Len(last.ev) : last.ev[j] = EvCall(listeners[i], state, "notify")

\* C12: on a store with a storage slot, a write applies the value, then
\* saves the serialization of the whole current record, then notifies: every
\* listener call of a write comes after the setItem of that write, whose text
\* is the serialization of the state the listener receives, and the slot holds
\* that text.
C12_PersistBeforeNotify ==
  (last.op = "write" /\ Truthy(storageKey)) =>
    /\ state[last.f] = last.v
    /\ \A i \in 1..Len(last.ev) :
         last.ev[i].t = "call" =>
           /\ last.ev[i].why = "notify"
           /\ last.ev[i].s = state
           /\ last.ev[1] = EvSet(storageKey, JSONstringify(last.ev[i].s))
           /\ \A j \in 2..Len(last.ev) : last.ev[j].t # "setItem"
           /\ localStorage[storageKey] = Item(JSONstringify(last.ev[i].s))

C12_Witness ==
  /\ last.op = "write" /\ last.f = "b" /\ last.v = "1"
  /\ storageKey = "k"
  /\ last.ev[1] = EvSet("k", JSONstringify([a |-> "0", b |-> "1"]))
  /\ last.ev[2] = EvCall("l2", [a |-> "0", b |-> "1"], "notify")
  /\ last.ev[3] = EvCall("l1", [a |-> "0", b |-> "1"], "notify")
  /\ Returned(last.ev)

\* The listeners called by a notification pass, in the order of the calls.
NotifiedSeq(tr) ==
  LET calls == SelectSeq(tr, LAMBDA e : e.t = "call") IN
  [i \in 1..Len(calls) |-> calls[i].l]

\* Whether seq is the beginning of whole.
IsPrefix(seq, whole) ==
  /\ Len(seq) <= Len(whole)
  /\ \A i \in 1..Len(seq) : seq[i] = whole[i]

\* C13: listeners are notified in the order of the subscribe calls that
\* registered them. A write calls the registered listeners in registry order
\* (all of them when the write returns); a subscribe of a listener that is not
\* registered, also one that was registered and unsubscribed before, puts it
\* after every registered listener and keeps the order of the others; an
\* unsubscribe removes its listener and keeps the order of the others.
C13_NotifyInRegistrationOrder ==
  [][/\ last'.op = "write" =>
          /\ IsPrefix(NotifiedSeq(last'.ev), listeners)
          /\ Returned(last'.ev) => NotifiedSeq(last'.ev) = listeners
     /\ (last'.op = "subscribe" /\ ~InSet(listeners, last'.l)) =>
          listeners' = listeners \o <<last'.l>>
     /\ (last'.op = "subscribe" /\ InSet(listeners, last'.l)) =>
          listeners' = listeners
     /\ last'.op = "unsubscribe" =>
          listeners' = SelectSeq(listeners, LAMBDA x : x # last'.l)
  ]_vars

\* l1 subscribed first, unsubscribed and subscribed again after l2: the write
\* calls l2 before l1.
C13_Witness ==
  /\ last.op = "write" /\ Returned(last.ev)
  /\ Handle("l1", TRUE) \in handles
  /\ Handle("l1", FALSE) \in handles
  /\ NotifiedSeq(last.ev) = <<"l2", "l1">>

\* The position of listener l in the registry ls (0 when absent).
IndexOf(ls, l) ==
  IF InSet(ls, l) THEN CHOOSE i \in 1..Len(ls) : ls[i] = l ELSE 0

\* C15: when a listener throws during the notification pass of a write, the
\* exception reaches the caller of the write (the write does not return), the
\* listeners registered before it have each been called once, those registered
\* after it are not called, and the new value is in the state and, with a
\* slot, in the saved snapshot.
C15_ListenerFailurePolicy ==
  (last.op = "write" /\ Threw(last.ev, "listener")) =>
    LET failing == CHOOSE i \in 1..Len(last.ev) : last.ev[i].t = "throw"
        culprit == last.ev[failing - 1].l
        at      == IndexOf(listeners, culprit) IN
    /\ failing = Len(last.ev)
    /\ ~Returned(last.ev)
    /\ at > 0
    /\ \A i \in 1..Len(listeners) :
         Cardinality(CallsOf(last.ev, listeners[i])) = IF i <= at THEN 1 ELSE 0
    /\ state[last.f] = last.v
    /\ Truthy(storageKey) => localStorage[storageKey] = Item(JSONstringify(state))

\* l1 before the throwing lt, l2 after it, on a store with a slot.
C15_Witness ==
  /\ last.op = "write" /\ Threw(last.ev, "listener")
  /\ listeners = <<"l1", "lt", "l2">>
  /\ storageKey = "k"
  /\ CallsOf(last.ev, "l1") # {}

\* The setItem events of a trace.
SavesOf(tr) == {i \in 1..Len(tr) : tr[i].t = "setItem"}

\* C16: every write on a store with a storage slot, made from outside any
\* listener and in which no listener throws, causes exactly one save and one
\* notification pass that calls each registered listener exactly once, also
\* when the value written equals the field's current value.
C16_PerWriteGranularity ==
  [][(/\ last'.op = "write"
      /\ Truthy(storageKey)
      /\ ~Threw(last'.ev, "listener"))
     => /\ Cardinality(SavesOf(last'.ev)) = 1
        /\ \A i \in 1..Len(listeners) :
             Cardinality(CallsOf(last'.ev, listeners[i])) = 1
  ]_vars

\* The entries of the registry ls that hold listener l.
EntriesOf(ls, l) == {i \in 1..Len(ls) : ls[i] = l}

C11_NoSilentBypass ==
  [][(/\ state' # state
      /\ last'.op # "construct"
      /\ ~Threw(last'.ev, "save")
      /\ ~Threw(last'.ev, "listener"))
     => /\ Truthy(storageKey) =>
             /\ SavesOf(last'.ev) # {}
             /\ localStorage'[storageKey] = Item(JSONstringify(state'))
        /\ \A i \in 1..Len(listeners) :
             \E j \in 1..Len(last'.ev) :
               last'.ev[j] = EvCall(listeners[i], state', "notify")
  ]_vars

\* The storage key a constructor call was given, read from its getItem.
KeyRead(tr) ==
  IF tr # <<>> /\ tr[1].t = "getItem" THEN tr[1].k ELSE Null

\* C17: a constructor call that finds in its slot an item that does not
\* deserialize to a record throws, creates no store (the previous instance,
\* its registry and its state stay) and leaves the storage as it was.
C17_MalformedSnapshotIsFatal ==
  [][(/\ last'.op = "construct"
      /\ KeyRead(last'.ev) # Null
      /\ ~localStorage[KeyRead(last'.ev)].null
      /\ ~IsObjectText(localStorage[KeyRead(last'.ev)].text))
     => /\ Threw(last'.ev, "construct")
        /\ ~Returned(last'.ev)
        /\ UNCHANGED <<state, storageKey, listeners, localStorage, handles>>
  ]_vars

\* The positions of tr at which a notification pass calls a listener.
PassCalls(tr) == {i \in 1..Len(tr) : tr[i].t = "call" /\ tr[i].why = "notify"}

\* C14: the notification passes of one store do not overlap: once a listener
\* has been called by the pass of a later write, no listener is called by the
\* pass of an earlier write any more.
C14_PassesDoNotOverlap ==
  last.op = "write" =>
    \A i, j \in PassCalls(last.ev) :
      i < j => last.ev[i].pass <= last.ev[j].pass

====
